---- MODULE Spec2Model ----
(***************************************************************************)
(* Model of lifecircles/speechtotext.                                      *)
(*                                                                         *)
(*   src/ptt.py               push-to-talk recorder: a keyboard listener   *)
(*                            thread, the audio driver's callback thread   *)
(*                            and the 100 ms recorder() tick.              *)
(*   src/transcribe_custom.py transcribe_file: trim, vocabulary merge,     *)
(*                            recognition call, transcript assembly.       *)
(*                                                                         *)
(* Spec  is the recorder, SpecT the transcriber.                           *)
(***************************************************************************)
EXTENDS Integers, Sequences, FiniteSets, TLC

VARIABLES
    \* ---- src/ptt.py ----
    key_pressed,   \* listener.key_pressed: "None" | "True" | "False"
    ended,         \* listener.ended: "None" | "True"
    listening,     \* the listener thread is alive (no callback has raised)
    recording,     \* global recording
    stream,        \* global stream: 0 is None, else an index into streams
    streams,       \* every stream p.open returned: "active"|"stopped"|"closed"
    terminated,    \* p.terminate() has been called
    frames,        \* global frames: the chunks the callback appended
    delivered,     \* number of chunks the driver has delivered so far
    files,         \* WAV files on disk: timestamp -> [chunks, nframes]
    clock,         \* wall clock in seconds, as time.strftime reads it
    pc,            \* position of the poll thread inside recorder()
    held,          \* the record key is physically down
    pairs,         \* history: complete press-then-release pairs of 'r'
    writes,        \* history: calls of listener.write_file
    deferred,      \* history: "no" | "pending" | "done", quit asked while recording
    pending,       \* recorder events in the queue of the scheduler task
    filename,      \* local filename of recorder(): the name write_file returned, -1 unset
    handed,        \* history: the name last passed to the transcriber, -1 none
    opened_at,     \* history: chunks delivered before the current stream was opened
    long_session,  \* the session explored is one long recording (bounds below)
    \* ---- src/transcribe_custom.py ----
    t_pc,          \* position inside transcribe_file
    t_error,       \* the exception that ended the invocation, or "none"
    runs,          \* invocations of transcribe_file so far
    audio_in,      \* duration (ms) of the audio file when the invocation began
    audio_ms,      \* duration (ms) of the audio file on disk
    exported,      \* trim_audio rewrote the audio file in this invocation
    vocab_exists,  \* vocab.txt exists
    vocab,         \* content of vocab.txt, a sequence of characters
    vocab0,        \* history: content of vocab.txt before the first invocation
    prev_vocab,    \* history: content of vocab.txt when the invocation began
    hints_given,   \* hints is not None
    hints,         \* the --w words, each a sequence of characters
    words,         \* local words of transcribe_file
    words_info,    \* result.alternatives[0].words of the response
    transcript,    \* local transcript of transcribe_file
    written,       \* transcript files on disk (calls of write_file)
    written0,      \* history: transcript files on disk when the invocation began
    rerun          \* history: the invocation repeats the hints of the one before it,
                   \* which ran its vocabulary merge

rvars == <<key_pressed, ended, listening, recording, stream, streams, terminated,
           frames, delivered, files, clock, pc, held, pairs, writes, deferred,
           pending, filename, handed, opened_at, long_session>>

tvars == <<t_pc, t_error, runs, audio_in, audio_ms, exported, vocab_exists, vocab,
           vocab0, prev_vocab, hints_given, hints, words, words_info, transcript,
           written, written0, rerun>>

vars == <<rvars, tvars>>

\* ------------------------------------------------------------------ bounds
MaxPairs  == 2     \* press/release pairs of the record key in a session
MaxFrames == 2     \* calls of callback() in a session
LongPairs == 1     \* press/release pairs of the record key in a long session
MaxChunks == 318   \* calls of callback() in a long session: 59.07 s of audio
MaxClock  == 1     \* seconds the wall clock advances in a session
MaxRuns   == 2     \* invocations of transcribe_file
MaxVocab  == 2     \* characters in the initial vocab.txt
MaxHints  == 2     \* words after --w
MaxWords  == 3     \* words in a recognition response

\* ------------------------------------------------------------ src/ptt.py
Keys == {"r", "q", "x", "shift"}

\* key.char: a KeyCode carries its character, a special key (keyboard.Key)
\* has no attribute char.
HasChar(key) == key # "shift"

\* Python truthiness of the listener's flags (None and False are falsy).
Truthy(v) == v = "True"

NoFiles == [f \in {} |-> <<>>]

RFresh ==
    /\ key_pressed = "None"
    /\ ended = "None"
    /\ listening = TRUE
    /\ recording = FALSE
    /\ stream = 0
    /\ streams = <<>>
    /\ terminated = FALSE
    /\ frames = <<>>
    /\ delivered = 0
    /\ files = NoFiles
    /\ clock = 0
    /\ pc = "wait"
    /\ held = FALSE
    /\ pairs = 0
    /\ writes = 0
    /\ deferred = "no"
    /\ pending = 1
    /\ filename = -1
    /\ handed = -1
    /\ opened_at = 0

\* A session of short recordings, and a session of either kind.
RInit == RFresh /\ long_session = FALSE
RInitLong == RFresh /\ long_session \in BOOLEAN

\* The bounds of the session explored.
PairBound == IF long_session THEN LongPairs ELSE MaxPairs
ChunkBound == IF long_session THEN MaxChunks ELSE MaxFrames

\* task.enter(0.1, 1, recorder, ()) puts one more event in the queue.
RescheduleSkipped(n) == n
Reschedule(n) == n + 1

Alive == pc \notin {"exited", "crashed"}

\* The three conditions of the if/elif chain of recorder().
StartCondNoRecordingTest(kp, rec) == Truthy(kp)
StartCond(kp, rec) == Truthy(kp) /\ ~rec
StopCond(kp, rec)  == ~Truthy(kp) /\ rec

\* MyListener.on_press, run on the listener thread for a physical key press.
\* A key without char raises AttributeError, which ends the listener thread.
OnPress(key) ==
    /\ UNCHANGED tvars
    /\ UNCHANGED long_session
    /\ UNCHANGED <<pending, filename, handed, opened_at>>
    /\ Alive
    /\ key = "r" /\ ~held => pairs < PairBound
    /\ held' = IF key = "r" THEN TRUE ELSE held
    /\ IF ~listening
         THEN UNCHANGED <<key_pressed, ended, listening, deferred>>
       ELSE IF ~HasChar(key)
         THEN listening' = FALSE /\ UNCHANGED <<key_pressed, ended, deferred>>
       ELSE IF key = "r"
         THEN key_pressed' = "True" /\ UNCHANGED <<ended, listening, deferred>>
       ELSE IF key = "q"
         THEN /\ ended' = "True"
              /\ deferred' = IF recording /\ deferred = "no" THEN "pending" ELSE deferred
              /\ UNCHANGED <<key_pressed, listening>>
       ELSE UNCHANGED <<key_pressed, ended, listening, deferred>>
    /\ UNCHANGED <<recording, stream, streams, terminated, frames, delivered, files,
                   clock, pc, pairs, writes>>

\* MyListener.on_release, run on the listener thread for a physical key release.
OnRelease(key) ==
    /\ UNCHANGED tvars
    /\ UNCHANGED long_session
    /\ UNCHANGED <<pending, filename, handed, opened_at>>
    /\ Alive
    /\ key = "r" => held
    /\ held' = IF key = "r" THEN FALSE ELSE held
    /\ pairs' = IF key = "r" THEN pairs + 1 ELSE pairs
    /\ IF ~listening
         THEN UNCHANGED <<key_pressed, listening>>
       ELSE IF ~HasChar(key)
         THEN listening' = FALSE /\ UNCHANGED key_pressed
       ELSE IF key = "r"
         THEN key_pressed' = "False" /\ UNCHANGED listening
       ELSE UNCHANGED <<key_pressed, listening>>
    /\ UNCHANGED <<ended, recording, stream, streams, terminated, frames, delivered,
                   files, clock, pc, writes, deferred>>

\* The stream is delivering chunks: opened and started, not yet stopped.
StreamActive(ss, s) == s # 0 /\ ss[s] = "active"

\* callback(), run on the driver thread while a stream is active: the chunk
\* is appended to the buffer.
Callback ==
    /\ UNCHANGED tvars
    /\ UNCHANGED long_session
    /\ UNCHANGED <<pending, filename, handed, opened_at>>
    /\ Alive
    /\ \E s \in DOMAIN streams : StreamActive(streams, s)
    /\ delivered < ChunkBound
    /\ delivered' = delivered + 1
    /\ frames' = Append(frames, delivered + 1)
    /\ UNCHANGED <<key_pressed, ended, listening, recording, stream, streams,
                   terminated, files, clock, pc, held, pairs, writes, deferred>>

\* The wall clock that time.strftime("%Y%m%d-%H%M%S.wav") reads.
ClockAdvance ==
    /\ UNCHANGED tvars
    /\ UNCHANGED long_session
    /\ UNCHANGED <<pending, filename, handed, opened_at>>
    /\ Alive
    /\ clock < MaxClock
    /\ clock' = clock + 1
    /\ UNCHANGED <<key_pressed, ended, listening, recording, stream, streams,
                   terminated, frames, delivered, files, pc, held, pairs, writes,
                   deferred>>

\* task.run() takes the due event from the queue and calls recorder(); line 57:
\* the tick evaluates the first condition.
Check57 ==
    /\ UNCHANGED tvars
    /\ UNCHANGED long_session
    /\ pending > 0
    /\ pending' = pending - 1
    /\ UNCHANGED <<filename, handed, opened_at>>
    /\ pc = "wait"
    /\ pc' = IF StartCond(key_pressed, recording) THEN "open" ELSE "l71"
    /\ UNCHANGED <<key_pressed, ended, listening, recording, stream, streams,
                   terminated, frames, delivered, files, clock, held, pairs, writes,
                   deferred>>

\* Lines 60-67 and 91: p.open returns a started stream, recording = True, and
\* the tick reschedules itself.
OpenStream ==
    /\ UNCHANGED tvars
    /\ UNCHANGED long_session
    /\ pending' = Reschedule(pending)
    /\ opened_at' = delivered
    /\ UNCHANGED <<filename, handed>>
    /\ pc = "open"
    /\ streams' = Append(streams, "active")
    /\ stream' = Len(streams) + 1
    /\ recording' = TRUE
    /\ pc' = "wait"
    /\ UNCHANGED <<key_pressed, ended, listening, terminated, frames, delivered,
                   files, clock, held, pairs, writes, deferred>>

\* An except clause that swallows the error and lets the tick reschedule.
OpenFailsRetried ==
    /\ UNCHANGED tvars
    /\ UNCHANGED long_session
    /\ pending' = Reschedule(pending)
    /\ UNCHANGED <<filename, handed, opened_at>>
    /\ pc = "open"
    /\ pc' = "wait"
    /\ UNCHANGED <<key_pressed, ended, listening, recording, stream, streams,
                   terminated, frames, delivered, files, clock, held, pairs, writes,
                   deferred>>

\* Lines 68-69: p.open raises, the exception leaves recorder() and task.run().
OpenFails ==
    /\ UNCHANGED tvars
    /\ UNCHANGED long_session
    /\ UNCHANGED <<pending, filename, handed, opened_at>>
    /\ pc = "open"
    /\ pc' = "crashed"
    /\ UNCHANGED <<key_pressed, ended, listening, recording, stream, streams,
                   terminated, frames, delivered, files, clock, held, pairs, writes,
                   deferred>>

\* Lines 71-73: the second condition; when it holds, recording = False.
Check71 ==
    /\ UNCHANGED tvars
    /\ UNCHANGED long_session
    /\ UNCHANGED <<pending, filename, handed, opened_at>>
    /\ pc = "l71"
    /\ IF StopCond(key_pressed, recording)
         THEN recording' = FALSE /\ pc' = "stop_stream"
         ELSE pc' = "l83" /\ UNCHANGED recording
    /\ UNCHANGED <<key_pressed, ended, listening, stream, streams, terminated,
                   frames, delivered, files, clock, held, pairs, writes, deferred>>

StopEffectSkipped(ss, s) == ss
StopEffect(ss, s) == [ss EXCEPT ![s] = "stopped"]

\* Line 74: stream.stop_stream() returns once the callback no longer runs.
StopStream ==
    /\ UNCHANGED tvars
    /\ UNCHANGED long_session
    /\ UNCHANGED <<pending, filename, handed, opened_at>>
    /\ pc = "stop_stream"
    /\ streams' = StopEffect(streams, stream)
    /\ pc' = "write"
    /\ UNCHANGED <<key_pressed, ended, listening, recording, stream, terminated,
                   frames, delivered, files, clock, held, pairs, writes, deferred>>

\* The sample rate of the stream and of the WAV file (lines 12, 48, 62).
RATE == 44100

\* frames_per_buffer: the audio frames of one chunk (lines 9, 64).
CHUNK == 8192

\* b''.join(frames): the audio data of the file is the chunks in buffer
\* order, each of CHUNK frames; nframes is the number of frames the file holds.
Wav(fr) == [chunks |-> fr, nframes |-> Len(fr) * CHUNK]

\* MyListener.write_file: the file named by the current second holds the
\* joined chunks; an existing file of that name is overwritten.
WriteWavAfterReset(fs, name, fr) ==
    [f \in DOMAIN fs \cup {name} |-> IF f = name THEN Wav(<<>>) ELSE fs[f]]
WriteWav(fs, name, fr) ==
    [f \in DOMAIN fs \cup {name} |-> IF f = name THEN Wav(fr) ELSE fs[f]]

\* Line 75: filename = listener.write_file(frames).
WriteFile ==
    /\ UNCHANGED tvars
    /\ UNCHANGED long_session
    /\ filename' = clock
    /\ UNCHANGED <<pending, handed, opened_at>>
    /\ pc = "write"
    /\ files' = WriteWav(files, clock, frames)
    /\ writes' = writes + 1
    /\ pc' = "transcribe"
    /\ UNCHANGED <<key_pressed, ended, listening, recording, stream, streams,
                   terminated, frames, delivered, clock, held, pairs, deferred>>

TrimThreshold == 59000
TrimLength    == 59000

\* trim_audio: len(sound) > 59000, and sound[:59000].
TrimNeededFrom59000(d) == d >= TrimThreshold
TrimNeeded(d) == d > TrimThreshold
Slice(d, n) == IF d < n THEN d ELSE n

\* The number of audio frames a WAV file holds.
FrameCount(w) == w.nframes

\* len(sound): the duration in milliseconds, round(1000 * frames / rate),
\* computed on whole seconds and the rest so that no product leaves 32 bits.
DurationMs(w) ==
    LET n == FrameCount(w)
    IN  1000 * (n \div RATE) + (2000 * (n % RATE) + RATE) \div (2 * RATE)

\* The frame at which a slice at ms milliseconds cuts: int(ms * rate / 1000).
FramesOfMs(ms) == (ms \div 1000) * RATE + ((ms % 1000) * RATE) \div 1000

\* The first n frames of the audio data: the chunks that lie in them wholly
\* or in part.
FirstFrames(w, n) ==
    IF n >= w.nframes THEN w
    ELSE [chunks |-> SubSeq(w.chunks, 1, (n + CHUNK - 1) \div CHUNK), nframes |-> n]

\* trim_audio on a file of the recorder: a file longer than 59000 ms is
\* exported again under its own name with its first 59000 ms.
TrimAudio(w) ==
    IF TrimNeeded(DurationMs(w))
      THEN FirstFrames(w, FramesOfMs(TrimLength))
      ELSE w

\* The stop transition without line 78: the buffer keeps its chunks.
ResetFramesSkipped ==
    /\ UNCHANGED tvars
    /\ UNCHANGED long_session
    /\ pending' = Reschedule(pending)
    /\ UNCHANGED <<filename, handed, opened_at>>
    /\ pc = "reset"
    /\ deferred' = IF deferred = "pending" THEN "done" ELSE deferred
    /\ pc' = "wait"
    /\ UNCHANGED <<key_pressed, ended, listening, recording, stream, streams,
                   terminated, frames, delivered, files, clock, held, pairs, writes>>

\* Lines 78 and 91: frames = [] and the tick reschedules itself.
ResetFrames ==
    /\ UNCHANGED tvars
    /\ UNCHANGED long_session
    /\ pending' = Reschedule(pending)
    /\ UNCHANGED <<filename, handed, opened_at>>
    /\ pc = "reset"
    /\ frames' = <<>>
    /\ deferred' = IF deferred = "pending" THEN "done" ELSE deferred
    /\ pc' = "wait"
    /\ UNCHANGED <<key_pressed, ended, listening, recording, stream, streams,
                   terminated, delivered, files, clock, held, pairs, writes>>

\* p.terminate() closes every stream the PyAudio instance still tracks.
CloseAll(ss) == [i \in DOMAIN ss |-> "closed"]

\* Line 83, left operand: not listener.key_pressed.  When it is false the
\* condition is false and the tick reschedules itself (line 91); otherwise the
\* right operand is read next.
Check83 ==
    /\ UNCHANGED tvars
    /\ UNCHANGED long_session
    /\ pending' = IF Truthy(key_pressed) THEN Reschedule(pending) ELSE pending
    /\ UNCHANGED <<filename, handed, opened_at>>
    /\ pc = "l83"
    /\ pc' = IF Truthy(key_pressed) THEN "wait" ELSE "l83_ended"
    /\ UNCHANGED <<key_pressed, ended, listening, recording, stream, streams,
                   terminated, frames, delivered, files, clock, held, pairs, writes,
                   deferred>>

\* Line 83, right operand, and lines 85-91: listener.ended is read after
\* key_pressed was found false.  When it is true: stream.close() on None
\* raises AttributeError; otherwise close, p.terminate(), sys.exit().  When it
\* is false the tick reschedules itself.
Check83Ended ==
    /\ UNCHANGED tvars
    /\ UNCHANGED long_session
    /\ pending' = IF Truthy(ended) THEN pending ELSE Reschedule(pending)
    /\ UNCHANGED <<filename, handed, opened_at>>
    /\ pc = "l83_ended"
    /\ IF Truthy(ended)
         THEN IF stream = 0
                THEN pc' = "crashed" /\ UNCHANGED <<streams, terminated>>
                ELSE /\ streams' = CloseAll(streams)
                     /\ terminated' = TRUE
                     /\ pc' = "exited"
         ELSE pc' = "wait" /\ UNCHANGED <<streams, terminated>>
    /\ UNCHANGED <<key_pressed, ended, listening, recording, stream, frames,
                   delivered, files, clock, held, pairs, writes, deferred>>

\* ------------------------------------------------- src/transcribe_custom.py
NL == "\n"
SP == " "

\* Strings are sequences of characters.
SeqsUpTo(S, n) == UNION {[1..k -> S] : k \in 0..n}

VocabChars == {"a", NL}
HintWords  == {<<>>, <<"a">>, <<"b">>}
HintLists  == SeqsUpTo(HintWords, MaxHints)
VocabFiles == SeqsUpTo(VocabChars, MaxVocab)

Durations == {TrimThreshold - 1, TrimThreshold, TrimThreshold + 1, 2 * TrimThreshold}
ShortAudio == 1000

SpeakerTags == {1, 2}
SpokenWords == {<<"h", "i">>, <<"y", "o">>, <<"t", "h", "e", "r", "e">>}
WordInfos  == [speaker_tag : SpeakerTags, word : SpokenWords]
WordLists  == SeqsUpTo(WordInfos, MaxWords)

\* What client.recognize does: it raises, it returns no result, or its last
\* result carries a word list.
Outcomes(lists) ==
    {[status |-> "error", words |-> <<>>], [status |-> "empty", words |-> <<>>]}
    \cup {[status |-> "ok", words |-> w] : w \in lists}

FewLists == {<<[speaker_tag |-> 1, word |-> <<"h", "i">>]>>,
             <<[speaker_tag |-> 2, word |-> <<"y", "o">>]>>}

\* str.split('\n')
RECURSIVE SplitLines(_)
SplitLines(s) ==
    IF s = <<>> THEN << <<>> >>
    ELSE LET rest == SplitLines(Tail(s)) IN
         IF Head(s) = NL THEN << <<>> >> \o rest
         ELSE << <<Head(s)>> \o Head(rest) >> \o Tail(rest)

\* load_vocab: f.read().split('\n') with the empty strings filtered out.
LoadVocab(content) == SelectSeq(SplitLines(content), LAMBDA w : w # <<>>)

\* write_vocab: "%s\n" for every word, in order.
RECURSIVE WriteVocab(_)
WriteVocab(ws) ==
    IF ws = <<>> THEN <<>> ELSE Head(ws) \o <<NL>> \o WriteVocab(Tail(ws))

\* transcribe_file lines 143-147: words_set is built once, before the loop;
\* every hint not in it is appended.
MergeHints(ws, hs) ==
    LET words_set == {ws[i] : i \in DOMAIN ws}
    IN  ws \o SelectSeq(hs, LAMBDA h : h \notin words_set)

\* Lines 142-148 on the file content, for hints that are not None.
MergeFile(content, hs) == WriteVocab(MergeHints(LoadVocab(content), hs))

Digits == <<"0", "1", "2", "3", "4", "5", "6", "7", "8", "9">>

\* "{}".format(n) of a non-negative integer.
RECURSIVE Str(_)
Str(n) == IF n < 10 THEN <<Digits[n + 1]>> ELSE Str(n \div 10) \o <<Digits[(n % 10) + 1]>>

SpeakerPrefix == <<"S", "p", "e", "a", "k", "e", "r", SP>>

\* "Speaker {}: {}".format(tag, speaker) + '\n'
SpeakerLine(tag, speaker) == SpeakerPrefix \o Str(tag) \o <<":", SP>> \o speaker \o <<NL>>

\* Lines 177-186: the walk over words_info and the final flush.
RECURSIVE Walk(_, _, _, _)
Walk(ws, tr, tag, speaker) ==
    IF ws = <<>> THEN tr \o SpeakerLine(tag, speaker)
    ELSE LET w == Head(ws) IN
         IF w.speaker_tag = tag
           THEN Walk(Tail(ws), tr, tag, speaker \o <<SP>> \o w.word)
           ELSE Walk(Tail(ws), tr \o SpeakerLine(tag, speaker), w.speaker_tag, w.word)

\* Lines 172-186: transcript = "", tag = 1, speaker = "".
Assemble(ws) == Walk(ws, <<>>, 1, <<>>)

\* Lines 162-189 run to write_file only when client.recognize returned and
\* response.results is not empty.
WritesTranscriptAlways(o) == TRUE
WritesTranscript(o) == o.status = "ok"

TFresh ==
    /\ t_pc = "idle"
    /\ t_error = "none"
    /\ runs = 0
    /\ audio_in = 0
    /\ audio_ms = 0
    /\ exported = FALSE
    /\ prev_vocab = vocab
    /\ vocab0 = vocab
    /\ hints_given = FALSE
    /\ hints = <<>>
    /\ words = <<>>
    /\ words_info = <<>>
    /\ transcript = <<>>
    /\ written = 0
    /\ written0 = 0
    /\ rerun = FALSE

\* The transcriber before its first invocation: vocab.txt is missing or holds
\* any content.
TInit ==
    /\ \/ vocab_exists = FALSE /\ vocab = <<>>
       \/ vocab_exists = TRUE /\ vocab \in VocabFiles
    /\ TFresh

\* The transcriber as the recorder's specification leaves it.
TIdle ==
    /\ vocab_exists = TRUE /\ vocab = <<>>
    /\ TFresh

\* transcribe_file lines 126-139: the invocation starts on an audio file of d
\* ms with the given hints ("None" or a list), and trim_audio runs.
Invoke(given, hs, d) ==
    /\ UNCHANGED rvars
    /\ t_pc \in {"idle", "done", "failed"}
    /\ runs < MaxRuns
    /\ runs' = runs + 1
    /\ hints_given' = given
    /\ hints' = hs
    /\ audio_in' = d
    /\ IF TrimNeeded(d)
         THEN audio_ms' = Slice(d, TrimLength) /\ exported' = TRUE
         ELSE audio_ms' = d /\ exported' = FALSE
    /\ prev_vocab' = vocab
    /\ written0' = written
    /\ rerun' = (/\ t_pc \in {"done", "failed"}
                 /\ t_error # "FileNotFoundError"
                 /\ given = hints_given
                 /\ hs = hints)
    /\ words' = <<>>
    /\ words_info' = <<>>
    /\ transcript' = <<>>
    /\ t_error' = "none"
    /\ t_pc' = "vocab"
    /\ UNCHANGED <<vocab_exists, vocab, vocab0, written>>

\* Lines 142-148: load_vocab raises when vocab.txt cannot be opened; otherwise
\* the hints are merged and, when hints is not None, the file is rewritten.
MergeVocab ==
    /\ UNCHANGED rvars
    /\ t_pc = "vocab"
    /\ IF ~vocab_exists
         THEN /\ t_pc' = "failed"
              /\ t_error' = "FileNotFoundError"
              /\ UNCHANGED <<words, vocab>>
         ELSE /\ words' = IF hints_given THEN MergeHints(LoadVocab(vocab), hints)
                                          ELSE LoadVocab(vocab)
              /\ vocab' = IF hints_given THEN WriteVocab(words') ELSE vocab
              /\ t_pc' = "recognize"
              /\ UNCHANGED t_error
    /\ UNCHANGED <<runs, audio_in, audio_ms, exported, vocab_exists, vocab0, prev_vocab,
                   hints_given, hints, words_info, transcript, written, written0,
                   rerun>>

\* Lines 162-189: the recognition call, the transcript assembly and write_file.
Recognize(o) ==
    /\ UNCHANGED rvars
    /\ t_pc = "recognize"
    /\ words_info' = o.words
    /\ IF WritesTranscript(o)
         THEN /\ transcript' = Assemble(o.words)
              /\ written' = written + 1
         ELSE UNCHANGED <<transcript, written>>
    /\ t_pc' = IF o.status = "ok" THEN "done" ELSE "failed"
    /\ t_error' = CASE o.status = "ok" -> "none"
                    [] o.status = "error" -> "RecognitionServiceError"
                    [] o.status = "empty" -> "IndexError"
    /\ UNCHANGED <<runs, audio_in, audio_ms, exported, vocab_exists, vocab, vocab0,
                   prev_vocab, hints_given, hints, words, written0, rerun>>

\* What the recognition service answers to the recorder's transcriptions.
RecorderOutcomes == Outcomes({<<[speaker_tag |-> 1, word |-> <<"h", "i">>]>>})

\* Line 77: os.system starts the transcriber on filename; the poll thread is
\* blocked until the child process has ended.
Transcribe ==
    /\ UNCHANGED tvars
    /\ UNCHANGED long_session
    /\ pc = "transcribe"
    /\ handed' = filename
    /\ pc' = "in_child"
    /\ UNCHANGED <<pending, filename, opened_at>>
    /\ UNCHANGED <<key_pressed, ended, listening, recording, stream, streams,
                   terminated, frames, delivered, files, clock, held, pairs, writes,
                   deferred>>

\* The child process enters transcribe_file (lines 126-132) for "FILE -s 1",
\* that is without hints: trim_audio runs on the recorded file.  The child of
\* this call has not run yet when fewer invocations than saved files exist.
ChildInvoke ==
    /\ UNCHANGED long_session
    /\ pc = "in_child"
    /\ runs < writes
    /\ runs' = runs + 1
    /\ hints_given' = FALSE
    /\ hints' = <<>>
    /\ audio_in' = DurationMs(files[handed])
    /\ IF TrimNeeded(DurationMs(files[handed]))
         THEN audio_ms' = Slice(DurationMs(files[handed]), TrimLength) /\ exported' = TRUE
         ELSE audio_ms' = DurationMs(files[handed]) /\ exported' = FALSE
    /\ files' = [files EXCEPT ![handed] = TrimAudio(files[handed])]
    /\ prev_vocab' = vocab
    /\ written0' = written
    /\ rerun' = (/\ t_pc \in {"done", "failed"}
                 /\ t_error # "FileNotFoundError"
                 /\ ~hints_given
                 /\ hints = <<>>)
    /\ words' = <<>>
    /\ words_info' = <<>>
    /\ transcript' = <<>>
    /\ t_error' = "none"
    /\ t_pc' = "vocab"
    /\ UNCHANGED <<vocab_exists, vocab, vocab0, written>>
    /\ UNCHANGED <<pending, filename, handed, opened_at>>
    /\ UNCHANGED <<key_pressed, ended, listening, recording, stream, streams,
                   terminated, frames, delivered, clock, pc, held, pairs, writes,
                   deferred>>

\* Line 77: the child process has ended, with or without an error, and
\* os.system returns.
TranscribeReturns ==
    /\ UNCHANGED tvars
    /\ UNCHANGED long_session
    /\ pc = "in_child"
    /\ runs = writes
    /\ t_pc \in {"done", "failed"}
    /\ pc' = "reset"
    /\ UNCHANGED <<pending, filename, handed, opened_at>>
    /\ UNCHANGED <<key_pressed, ended, listening, recording, stream, streams,
                   terminated, frames, delivered, files, clock, held, pairs, writes,
                   deferred>>

RNext ==
    \/ \E key \in Keys : OnPress(key)
    \/ \E key \in Keys : OnRelease(key)
    \/ Callback
    \/ ClockAdvance
    \/ Check57
    \/ OpenStream
    \/ OpenFails
    \/ Check71
    \/ StopStream
    \/ WriteFile
    \/ Transcribe
    \/ ChildInvoke
    \/ MergeVocab
    \/ \E o \in RecorderOutcomes : Recognize(o)
    \/ TranscribeReturns
    \/ ResetFrames
    \/ Check83
    \/ Check83Ended

\* ---------------------------------------------------------- specifications

\* The recorder.
Init == RInit /\ TIdle
Next == RNext
Spec == Init /\ [][Next]_vars

\* The recorder in sessions of either kind.
InitLong == RInitLong /\ TIdle
SpecLong == InitLong /\ [][Next]_vars

\* The recorder under fair ticking: task.run() (line 106) runs the due event,
\* and every call recorder() makes returns (the child process of line 77
\* runs to its end), so a tick that can take a step takes one.  Key presses,
\* chunk deliveries and the failure of p.open are not forced.
TickStep ==
    \/ Check57 \/ OpenStream \/ Check71 \/ StopStream
    \/ WriteFile \/ Transcribe \/ ChildInvoke \/ MergeVocab
    \/ (\E o \in RecorderOutcomes : Recognize(o)) \/ TranscribeReturns
    \/ ResetFrames \/ Check83 \/ Check83Ended
SpecFair == Init /\ [][Next]_vars /\ WF_vars(TickStep)

\* The transcriber: vocabulary files and hint lists.
InitT == TInit /\ RInit
NextT ==
    \/ Invoke(FALSE, <<>>, ShortAudio)
    \/ \E hs \in HintLists : Invoke(TRUE, hs, ShortAudio)
    \/ MergeVocab
    \/ \E o \in Outcomes(FewLists) : Recognize(o)
SpecT == InitT /\ [][NextT]_vars

\* The transcriber: audio durations and recognition responses.
InitA == TIdle /\ RInit
NextA ==
    \/ \E d \in Durations : Invoke(FALSE, <<>>, d)
    \/ MergeVocab
    \/ \E o \in Outcomes(WordLists) : Recognize(o)
SpecA == InitA /\ [][NextA]_vars

\* ------------------------------------------------------- recorder claims

\* C1 (as stated): when the recorder has quit after a session of 'r' and 'q'
\* key events only, the number of distinct WAV files equals the number of
\* complete press-then-release pairs of the record key.
C1_FilesEqualPairs ==
    (pc = "exited" /\ listening /\ ~recording) => Cardinality(DOMAIN files) = pairs

\* C1 (amended): the number of distinct WAV files is at most the number of
\* write_file calls, which is at most the number of complete press-then-release
\* pairs; between ticks the number of write_file calls is the number of
\* recordings the ticks have started and stopped.
C1_FilesAtMostPairs ==
    /\ Cardinality(DOMAIN files) <= writes
    /\ writes <= pairs
    /\ pc = "wait" => writes = Len(streams) - (IF recording THEN 1 ELSE 0)

\* A session that quit cleanly with two complete pairs, one of them never seen
\* by a tick, and one file.
C1_Witness ==
    /\ pc = "exited" /\ listening /\ ~recording
    /\ pairs = 2 /\ writes = 1 /\ Cardinality(DOMAIN files) = 1

\* C2: when the quit key was pressed while recording was true, the process
\* exits only after the Recording -> Idle transition has completed, with
\* recording false.
C2_QuitDeferral ==
    (pc = "exited" /\ deferred # "no") => (deferred = "done" /\ ~recording)

\* The poll thread is reading the frame buffer, blocked between the read and
\* the reset, or resetting it.
InReadResetWindow == pc \in {"write", "transcribe", "in_child", "reset"}

\* C10: while the poll thread reads or resets the frame buffer no stream is
\* active, and the buffer changes in that window only by the reset itself.
C10_StopBeforeRead ==
    /\ [](InReadResetWindow => \A s \in DOMAIN streams : ~StreamActive(streams, s))
    /\ [][(InReadResetWindow /\ frames' # frames) => (pc = "reset" /\ frames' = <<>>)]_vars

\* The poll thread is about to write a non-empty buffer while the driver still
\* has chunks to deliver.
C10_Witness ==
    /\ pc = "write" /\ Len(frames) > 0 /\ delivered < MaxFrames
    /\ stream # 0 /\ streams[stream] = "stopped"

\* ---------------------------------------------------- transcriber claims

\* Length of the maximal run of words at the head of ws that carry one tag.
RECURSIVE RunLength(_)
RunLength(ws) ==
    IF Len(ws) <= 1 THEN Len(ws)
    ELSE IF ws[2].speaker_tag = ws[1].speaker_tag THEN 1 + RunLength(Tail(ws))
    ELSE 1

\* The words of ws joined by single spaces.
RECURSIVE JoinWords(_)
JoinWords(ws) ==
    IF Len(ws) = 1 THEN ws[1].word
    ELSE ws[1].word \o <<SP>> \o JoinWords(Tail(ws))

\* One line "Speaker <tag>: w1 w2 ...\n" per maximal run of one tag, in order.
RECURSIVE Grouped(_)
Grouped(ws) ==
    IF ws = <<>> THEN <<>>
    ELSE LET n == RunLength(ws) IN
         SpeakerPrefix \o Str(ws[1].speaker_tag) \o <<":", SP>>
           \o JoinWords(SubSeq(ws, 1, n)) \o <<NL>>
           \o Grouped(SubSeq(ws, n + 1, Len(ws)))

\* C3: for a non-empty word list the transcript written is exactly the
\* concatenation of the "Speaker <tag>: words" lines of its maximal runs.
C3_TranscriptGrouping ==
    (t_pc = "done" /\ words_info # <<>>) => transcript = Grouped(words_info)

LineCount(str) == Cardinality({i \in DOMAIN str : str[i] = NL})
StartsWith(str, prefix) ==
    Len(str) >= Len(prefix) /\ SubSeq(str, 1, Len(prefix)) = prefix
OneSpeaker(ws) == \A i \in DOMAIN ws : ws[i].speaker_tag = ws[1].speaker_tag

\* C4: for a non-empty word list whose words all carry the tag N the
\* transcript is exactly one line, and it is the "Speaker N: " line.
C4_SingleSpeakerOneLine ==
    (t_pc = "done" /\ words_info # <<>> /\ OneSpeaker(words_info)) =>
        /\ LineCount(transcript) = 1
        /\ StartsWith(transcript,
                      SpeakerPrefix \o Str(words_info[1].speaker_tag) \o <<":", SP>>)

\* C5: when client.recognize fails, the invocation has written no transcript
\* file and vocab.txt holds what the merge step left: the merged list when
\* hints were given, the content it had before otherwise.
C5_RecognitionFailure ==
    (t_pc = "failed" /\ t_error = "RecognitionServiceError") =>
        /\ written = written0
        /\ transcript = <<>>
        /\ vocab_exists
        /\ vocab = IF hints_given THEN WriteVocab(words) ELSE prev_vocab

\* A failed recognition call after a merge that changed vocab.txt, in an
\* invocation that follows one that wrote a transcript.
C5_Witness ==
    /\ t_pc = "failed" /\ t_error = "RecognitionServiceError"
    /\ hints_given /\ vocab # prev_vocab /\ written0 = 1

\* C6: when an invocation repeats the hint list of the invocation before it,
\* its vocabulary merge leaves vocab.txt as the first merge wrote it.
C6_MergeIdempotent ==
    (rerun /\ t_pc \in {"recognize", "done", "failed"}) => vocab = prev_vocab

NoDuplicates(ws) == \A i, j \in DOMAIN ws : ws[i] = ws[j] => i = j

\* C7: when the vocabulary file had no duplicate entries before the first
\* invocation, it has none after any sequence of invocations.
C7_NoDuplicateEntries ==
    (vocab_exists /\ NoDuplicates(LoadVocab(vocab0))) => NoDuplicates(LoadVocab(vocab))

\* C8: after trim_audio an audio file longer than 59000 ms lasts exactly
\* 59000 ms; a file of at most 59000 ms keeps its duration and is not
\* rewritten.
C8_DurationClamp ==
    t_pc # "idle" =>
        IF audio_in > 59000
          THEN audio_ms = 59000 /\ exported
          ELSE audio_ms = audio_in /\ ~exported

\* trim_audio has cut a file of more than 59 s.
C8_Witness ==
    t_pc = "vocab" /\ audio_in > 59000 /\ audio_ms = 59000 /\ exported

\* C9: a missing vocab.txt does not fail the invocation: it goes on to the
\* recognition call with an empty vocabulary.
C9_MissingVocabSoftDefault ==
    (~vocab_exists /\ t_pc \notin {"idle", "vocab"}) =>
        (t_error # "FileNotFoundError" /\ t_pc \in {"recognize", "done", "failed"})

\* ---------------------------------------------------------------------------
\* Recorder: quit, failure, ordering and resources
\* ---------------------------------------------------------------------------

\* A step of the tick that has found the record key not held and finds quit
\* requested (line 83).
QuitTickStep == pc = "l83_ended" /\ pc' # "l83_ended" /\ Truthy(ended)

AllClosed(ss) == \A i \in DOMAIN ss : ss[i] = "closed"

\* C11: every tick that finds quit requested, the record key not held and no
\* recording active closes the stream, terminates PyAudio and exits the
\* process, whether or not a recording was started before.
C11_IdleQuit ==
    [][(QuitTickStep /\ ~recording) =>
          (pc' = "exited" /\ terminated' /\ AllClosed(streams'))]_vars

\* A step that leaves line 60 without a new stream: p.open has raised.
OpenFailedStep == pc = "open" /\ pc' # "open" /\ streams' = streams

\* C12: when p.open fails on the Idle -> Recording transition the error leaves
\* recorder(): recording stays false, no next tick is scheduled, and nothing
\* of the process runs afterwards.
C12_FailFast ==
    [][/\ OpenFailedStep => (pc' = "crashed" /\ ~recording' /\ pending' = 0)
       /\ pc # "crashed"]_vars

C12_Witness ==
    pc = "crashed" /\ Truthy(key_pressed) /\ ~recording /\ pending = 0

\* The file named by the local filename is on disk and holds the buffer.
FileHoldsBuffer == filename \in DOMAIN files /\ files[filename] = Wav(frames)

\* The child process of the current os.system call has run trim_audio.
ChildRan == runs = writes

\* The file is on disk as the transcriber left it.
FileTranscribed == filename \in DOMAIN files /\ files[filename] = TrimAudio(Wav(frames))

\* C13: on every Recording -> Idle transition the stream is stopped, then the
\* buffer is written to the WAV file, then the transcriber is invoked on that
\* file name, then the buffer is reset: the file is written from a stopped
\* stream, os.system is called and the child starts only with the written and
\* closed file on disk, and the buffer is emptied only after the child has
\* ended.
C13_StopWriteTranscribeReset ==
    /\ [](/\ pc \in {"write", "transcribe", "in_child", "reset"} =>
               (stream # 0 /\ streams[stream] = "stopped")
          /\ pc = "transcribe" => FileHoldsBuffer
          /\ pc = "in_child" =>
               /\ handed = filename
               /\ IF ChildRan THEN FileTranscribed ELSE FileHoldsBuffer
          /\ pc = "reset" =>
               /\ handed = filename /\ FileTranscribed
               /\ ChildRan /\ t_pc \in {"done", "failed"})
    /\ [][/\ files' # files => (pc = "write" \/ (pc = "in_child" /\ ~ChildRan))
          /\ handed' # handed => (pc = "transcribe" /\ FileHoldsBuffer)
          /\ runs' # runs => (pc = "in_child" /\ handed = filename /\ FileHoldsBuffer)
          /\ (frames # <<>> /\ frames' = <<>>) =>
                (pc = "reset" /\ handed = filename /\ FileTranscribed)]_vars

C13_Witness ==
    /\ pc = "reset" /\ Len(frames) >= 2
    /\ handed = filename /\ FileTranscribed
    /\ streams[stream] = "stopped"

\* recorder() is running: its event has been taken from the queue.
InTick == Alive /\ pc # "wait"

\* C14: every tick that ends as a start transition, a stop transition or a
\* no-op has scheduled exactly one next tick, so until Quit exactly one tick
\* is either queued or running, never two; after the tick that reaches Quit
\* the queue is empty.
C14_OneTickPending ==
    /\ pending \in {0, 1}
    /\ pc = "wait" => pending = 1
    /\ InTick => pending = 0
    /\ pc = "exited" => pending = 0

C14_Witness ==
    pc = "wait" /\ pending = 1 /\ writes >= 1 /\ recording /\ Truthy(ended)

\* The chunks the callback delivered since the current stream was opened, in
\* delivery order.
DeliveredToStream == [i \in 1..(delivered - opened_at) |-> opened_at + i]

\* The buffer is empty when a stream is opened; while a recording runs and
\* until its buffer is reset the buffer is exactly the chunks delivered to its
\* stream.
BufferIsolated ==
    /\ pc = "open" => frames = <<>>
    /\ (recording \/ pc \in {"stop_stream", "write", "transcribe", "in_child", "reset"}) =>
          frames = DeliveredToStream

\* C15 (as stated): the buffer is empty at the start of every recording, and
\* the WAV file written for a recording holds exactly the frames delivered to
\* its stream, in order: none dropped, none of another recording.
C15_FrameIsolation ==
    /\ BufferIsolated
    /\ pc \in {"transcribe", "in_child", "reset"} =>
          (filename \in DOMAIN files /\ files[filename] = Wav(DeliveredToStream))

\* C15 (amended): the buffer is isolated as stated, and the WAV file holds
\* exactly the frames delivered to its stream from the return of write_file
\* until trim_audio runs in the transcriber; from then on a file of more than
\* 59000 ms holds only the first 59000 ms of them and a shorter file holds
\* them all.
C15_FrameIsolationUntilTrim ==
    /\ BufferIsolated
    /\ (pc = "transcribe" \/ (pc = "in_child" /\ ~ChildRan)) =>
          (filename \in DOMAIN files /\ files[filename] = Wav(DeliveredToStream))
    /\ ((pc = "in_child" /\ ChildRan) \/ pc = "reset") =>
          /\ filename \in DOMAIN files
          /\ LET full == Wav(DeliveredToStream)
                 kept == FramesOfMs(TrimLength)
             IN  IF DurationMs(full) <= TrimThreshold
                   THEN files[filename] = full
                   ELSE /\ files[filename] = FirstFrames(full, kept)
                        /\ FrameCount(files[filename]) = kept
                        /\ kept < FrameCount(full)

\* A recording of more than 59000 ms while the transcriber still runs: the
\* file holds fewer frames than the buffer.
C15_Witness ==
    /\ pc = "in_child" /\ t_pc = "recognize"
    /\ FrameCount(files[filename]) < Len(frames) * CHUNK
    /\ files[filename] # Wav(DeliveredToStream)

ActiveStreams == {i \in DOMAIN streams : StreamActive(streams, i)}

\* C16: between ticks the recording flag is true exactly when the current
\* stream is open and started; when it is false every stream opened so far is
\* stopped; and at no time is more than one stream active.
C16_FlagStreamConsistency ==
    /\ pc = "wait" => (recording <=> (stream # 0 /\ StreamActive(streams, stream)))
    /\ (pc = "wait" /\ ~recording) => \A i \in DOMAIN streams : streams[i] = "stopped"
    /\ Cardinality(ActiveStreams) <= 1

C16_Witness ==
    /\ pc = "wait" /\ recording /\ stream = 2
    /\ streams[1] = "stopped" /\ ActiveStreams = {2}

\* C17: once quit has been requested and the record key is released for
\* good, fair ticking brings the recorder to the quit branch and the process
\* ends.
C17_QuitHonored ==
    (<>Truthy(ended) /\ <>[](~held)) => <>(~Alive)

\* C18: no key event stops the listener: after a press or release of a key
\* other than 'r' and 'q', special keys included, the listener still handles
\* the 'r' and 'q' events that follow.
C18_UnrelatedKeysIgnored == [][listening']_vars

\* Streams that p.open returned and nothing has closed yet.
Unclosed == {i \in DOMAIN streams : streams[i] # "closed"}

\* C19: at every point at most one opened stream is still unclosed, and when
\* the process has exited through Quit every stream of the session is closed.
C19_NoStreamLeak ==
    /\ Cardinality(Unclosed) <= 1
    /\ pc = "exited" => AllClosed(streams)

====
